---- MODULE Spec2Model ----
(***************************************************************************)
(* A model of PyExecJS (execjs/__init__.py, execjs/runtimes_config.py,     *)
(* execjs/runner_source.py): the binary locator, the registry of           *)
(* JavaScript runtimes and its construction, the selector get(), compiled  *)
(* contexts, the transport of ExternalRuntime.Context.exec_ with the       *)
(* runner templates and the result extraction, and the escaping of         *)
(* non-ASCII source text.                                                  *)
(***************************************************************************)
EXTENDS Naturals, Integers, Sequences, FiniteSets, TLC

VARIABLES
    installed,   \* the programs an os.stat of the search path finds executable,
                 \* and "PyV8" when the PyV8 module can be imported
    heap,        \* the runtime objects constructed so far; an object is its index
    _runtimes,   \* execjs._runtimes: the OrderedDict, a sequence of [k, v] items
    nops,        \* the register / constructor calls the host has made: how many,
                 \* and the names it has registered; the answers is_available
                 \* has given it, each with the object asked
    last,        \* the last operation of the registry API and its outcome
    tempdir,     \* the temporary files that exist, each with its content
    call,        \* the exec_ call in progress: its position and its locals
    contexts,    \* the Context objects runtime.compile has returned, in order
    suspended    \* the exec_ call of the host's other thread, which is not running

regVars == <<installed, heap, _runtimes, nops, last>>
execVars == <<tempdir, call>>
ctxVars == <<contexts, suspended>>
vars == <<installed, heap, _runtimes, nops, last, tempdir, call, contexts, suspended>>

(***************************************************************************)
(* Bounds of the model.                                                    *)
(***************************************************************************)
MaxRegister == 1     \* register() calls
MaxConstruct == 1    \* ExternalRuntime objects the host constructs itself

(***************************************************************************)
(* Python's None; the value of a missing os.environ key as well.           *)
(***************************************************************************)
None == "<None>"

\* No object: what get_from_environment returns for `return None`.
NoObject == 0

(***************************************************************************)
(* runtimes_config.py                                                      *)
(***************************************************************************)
runtime_preferred_order ==
    <<"PyV8", "Node", "JavaScriptCore", "SpiderMonkey", "JScript", "PhantomJS", "SlimerJS">>

\* config[family]; a command is the list ExternalRuntime.__init__ makes of it.
config ==
    [fam \in {"PyV8", "Node", "JavaScriptCore", "SpiderMonkey", "JScript", "PhantomJS",
              "SlimerJS"} |->
        CASE fam = "JavaScriptCore" ->
               [commands_to_try |-> << <<"/System/Library/Frameworks/JavaScriptCore.framework/Versions/A/Resources/jsc">> >>,
                name |-> "JavaScriptCore", runner_source |-> "javascriptcore",
                encoding |-> "utf8", runtime_type |-> "ExternalRuntime",
                alternate_names |-> <<>>]
          [] fam = "JScript" ->
               [commands_to_try |-> << <<"cscript", "//E:jscript", "//Nologo">> >>,
                name |-> "JScript", runner_source |-> "jscript",
                encoding |-> "ascii", runtime_type |-> "ExternalRuntime",
                alternate_names |-> <<>>]
          [] fam = "Node" ->
               [commands_to_try |-> << <<"nodejs">>, <<"node">> >>,
                name |-> "Node.js (V8)", runner_source |-> "node",
                encoding |-> "UTF-8", runtime_type |-> "ExternalRuntime",
                alternate_names |-> <<>>]
          [] fam = "PhantomJS" ->
               [commands_to_try |-> << <<"phantomjs">> >>,
                name |-> "PhantomJS", runner_source |-> "phantomjs",
                encoding |-> "utf8", runtime_type |-> "ExternalRuntime",
                alternate_names |-> <<>>]
          [] fam = "PyV8" ->
               [commands_to_try |-> << <<None>> >>,
                name |-> "PyV8", runner_source |-> "",
                encoding |-> "", runtime_type |-> "PyV8Runtime",
                alternate_names |-> <<>>]
          [] fam = "SlimerJS" ->
               [commands_to_try |-> << <<"slimerjs">> >>,
                name |-> "SlimerJS", runner_source |-> "phantomjs",
                encoding |-> "utf8", runtime_type |-> "ExternalRuntime",
                alternate_names |-> <<>>]
          [] fam = "SpiderMonkey" ->
               [commands_to_try |-> << <<"js">> >>,
                name |-> "SpiderMonkey", runner_source |-> "spidermonkey",
                encoding |-> "utf8", runtime_type |-> "ExternalRuntime",
                alternate_names |-> <<"Spidermonkey">>] ]

(***************************************************************************)
(* The exception classes and their hierarchy.                              *)
(***************************************************************************)
ExceptionBases ==
    [c \in {"Error", "RuntimeError", "ProgramError", "RuntimeUnavailable"} |->
        CASE c = "Error" -> {"Error"}
          [] c = "RuntimeError" -> {"RuntimeError", "Error"}
          [] c = "ProgramError" -> {"ProgramError", "Error"}
          [] c = "RuntimeUnavailable" -> {"RuntimeUnavailable", "RuntimeError", "Error"}]

\* isinstance(an exception of class c, base)
IsInstance(c, base) == c \in DOMAIN ExceptionBases /\ base \in ExceptionBases[c]

(***************************************************************************)
(* OrderedDict: a sequence of items in insertion order.                    *)
(***************************************************************************)
DictKeys(d) == {d[i].k : i \in 1..Len(d)}

DictIndex(d, key) == CHOOSE i \in 1..Len(d) : d[i].k = key

\* d[key], for a key of d
DictGet(d, key) == d[DictIndex(d, key)].v

\* d[key] = value: a key of d keeps its place, a new key goes last
DictSet(d, key, value) ==
    IF key \in DictKeys(d)
      THEN [d EXCEPT ![DictIndex(d, key)].v = value]
      ELSE Append(d, [k |-> key, v |-> value])

(***************************************************************************)
(* The binary locator.  A located command is [path] + args.                *)
(***************************************************************************)
NoCommand == [t |-> "none", path |-> "", args |-> <<>>]
Unset == [t |-> "unset", path |-> "", args |-> <<>>]

\* _find_executable: the file of the search path that os.stat finds regular and
\* executable, or None
_find_executable(inst, prog) == IF prog \in inst THEN prog ELSE None

\* _which: only command[0] is searched for
_which(inst, command) ==
    LET name == Head(command)
        args == Tail(command)
        path == _find_executable(inst, name)
    IN  IF path = None THEN NoCommand
        ELSE [t |-> "cmd", path |-> path, args |-> args]

(***************************************************************************)
(* The binary locator on a file system.  os.path.join(dir, prog + ext) is  *)
(* the triple <<dir, prog, ext>>; fs gives, for the file names it knows,   *)
(* what os.stat meets there.                                               *)
(***************************************************************************)
\* os.stat(filename): a regular file with an execute bit ("file_x") or with none
\* ("file"), a directory ("dir"), or os.error ("EACCES", and "ENOENT" for a name
\* in a missing directory or a missing name)
os_stat(fs, filename) == IF filename \in DOMAIN fs THEN fs[filename] ELSE "ENOENT"

\* None as _find_executable returns it, and None as _which returns it
NoPath == <<>>
NotFound == [t |-> "none", path |-> NoPath, args |-> <<>>]

RECURSIVE FindFromExtFirst(_, _, _, _, _, _)
\* the two loops the other way round: for ext in pathext: for dir in pathlist
FindFromExtFirst(fs, pathlist, prog, pathext, i, j) ==
    IF j > Len(pathext) THEN NoPath
    ELSE IF i > Len(pathlist) THEN FindFromExtFirst(fs, pathlist, prog, pathext, 1, j + 1)
    ELSE IF os_stat(fs, <<pathlist[i], prog, pathext[j]>>) = "file_x"
      THEN <<pathlist[i], prog, pathext[j]>>
    ELSE FindFromExtFirst(fs, pathlist, prog, pathext, i + 1, j)

RECURSIVE FindFrom(_, _, _, _, _, _)
\* for dir in pathlist: for ext in pathext: from directory i and suffix j on;
\* os.error goes on to the next name, so does a file that is not regular or
\* has no execute bit
FindFrom(fs, pathlist, prog, pathext, i, j) ==
    IF i > Len(pathlist) THEN NoPath
    ELSE IF j > Len(pathext) THEN FindFrom(fs, pathlist, prog, pathext, i + 1, 1)
    ELSE IF os_stat(fs, <<pathlist[i], prog, pathext[j]>>) = "file_x"
      THEN <<pathlist[i], prog, pathext[j]>>
    ELSE FindFrom(fs, pathlist, prog, pathext, i, j + 1)

\* _find_executable(prog, pathext) with PATH split into pathlist
_find_executable_path(fs, pathlist, prog, pathext) ==
    FindFrom(fs, pathlist, prog, pathext, 1, 1)

\* _which(command) with the environment env: its PATH and PATHEXT split at
\* os.pathsep, and whether the platform is Windows
_which_path(fs, env, command) ==
    LET name == Head(command)
        args == Tail(command)
        path == IF env.windows
                  THEN _find_executable_path(fs, env.PATH, name, env.PATHEXT)
                  ELSE _find_executable_path(fs, env.PATH, name, <<"">>)
    IN  IF path = NoPath THEN NotFound
        ELSE [t |-> "cmd", path |-> path, args |-> args]

(***************************************************************************)
(* Runtime objects.                                                        *)
(***************************************************************************)
\* ExternalRuntime.__init__: no _binary_cache attribute yet.  which_calls is
\* no attribute of the object: it counts the calls of _which made for it.
NewExternalRuntime(name, command, runner_source, encoding) ==
    [cls |-> "ExternalRuntime", name |-> name, command |-> command,
     runner_source |-> runner_source, encoding |-> encoding,
     _binary_cache |-> Unset, _is_available |-> FALSE, which_calls |-> 0]

\* PyV8Runtime.__init__: the import is tried once, here
NewPyV8Runtime(inst) ==
    [cls |-> "PyV8Runtime", name |-> "PyV8", command |-> <<>>,
     runner_source |-> "", encoding |-> "",
     _binary_cache |-> Unset, _is_available |-> ("PyV8" \in inst), which_calls |-> 0]

\* _binary with no cache: every call looks the command up
_binary_uncached(inst, h, o) ==
    LET found == _which(inst, h[o].command)
    IN  [h |-> [h EXCEPT ![o]._binary_cache = found, ![o].which_calls = @ + 1],
         res |-> found]

\* ExternalRuntime._binary: the lookup is made when the object has no cache
\* attribute, and its answer (None too) is kept
_binary(inst, h, o) ==
    IF h[o]._binary_cache = Unset
      THEN LET found == _which(inst, h[o].command)
           IN  [h |-> [h EXCEPT ![o]._binary_cache = found, ![o].which_calls = @ + 1],
                res |-> found]
      ELSE [h |-> h, res |-> h[o]._binary_cache]

\* r.is_available() of either class: the heap afterwards and the answer
is_available(inst, h, o) ==
    IF h[o].cls = "PyV8Runtime"
      THEN [h |-> h, res |-> h[o]._is_available]
      ELSE LET b == _binary(inst, h, o)
           IN  [h |-> b.h, res |-> b.res # NoCommand]

(***************************************************************************)
(* _setup_runtimes                                                         *)
(***************************************************************************)
\* the alternate names bound to the runtime made before r
BindNamesStale(d, names, r) ==
    [i \in 1..Len(d) |-> d[i]]
        \o [i \in 1..Len(names) |->
               [k |-> names[i], v |-> IF i = 1 THEN r ELSE r - 1]]

RECURSIVE BindNames(_, _, _)
\* for name in [runtime_name] + alternate_names: __runtimes[name] = r
BindNames(d, names, r) ==
    IF names = <<>> THEN d
    ELSE BindNames(DictSet(d, Head(names), r), Tail(names), r)

RECURSIVE SetupCommandsNoBreak(_, _, _, _, _)
\* the inner loop with no break: every candidate is made, bound and asked
SetupCommandsNoBreak(inst, h, d, runtime_name, i) ==
    LET cfg == config[runtime_name]
        obj == IF cfg.runtime_type = "PyV8Runtime"
                 THEN NewPyV8Runtime(inst)
                 ELSE NewExternalRuntime(cfg.name, cfg.commands_to_try[i],
                                         cfg.runner_source, cfg.encoding)
        h1 == Append(h, obj)
        r == Len(h1)
        d1 == BindNames(d, <<runtime_name>> \o cfg.alternate_names, r)
        a == is_available(inst, h1, r)
    IN  IF i = Len(cfg.commands_to_try)
          THEN [h |-> a.h, d |-> d1]
          ELSE SetupCommandsNoBreak(inst, a.h, d1, runtime_name, i + 1)

RECURSIVE SetupCommands(_, _, _, _, _)
\* the inner loop over config['commands_to_try'], from candidate i on
SetupCommands(inst, h, d, runtime_name, i) ==
    LET cfg == config[runtime_name]
        obj == IF cfg.runtime_type = "PyV8Runtime"
                 THEN NewPyV8Runtime(inst)
                 ELSE NewExternalRuntime(cfg.name, cfg.commands_to_try[i],
                                         cfg.runner_source, cfg.encoding)
        h1 == Append(h, obj)
        r == Len(h1)
        d1 == BindNames(d, <<runtime_name>> \o cfg.alternate_names, r)
        a == is_available(inst, h1, r)
    IN  IF a.res \/ i = Len(cfg.commands_to_try)
          THEN [h |-> a.h, d |-> d1]
          ELSE SetupCommands(inst, a.h, d1, runtime_name, i + 1)

RECURSIVE SetupFamilies(_, _, _, _)
\* the outer loop over runtime_preferred_order, from family j on
SetupFamilies(inst, h, d, j) ==
    IF j > Len(runtime_preferred_order) THEN [h |-> h, d |-> d]
    ELSE LET s == SetupCommands(inst, h, d, runtime_preferred_order[j], 1)
         IN  SetupFamilies(inst, s.h, s.d, j + 1)

_setup_runtimes(inst) == SetupFamilies(inst, <<>>, <<>>, 1)

(***************************************************************************)
(* The selector.                                                           *)
(***************************************************************************)
Return(r) == [kind |-> "return", runtime |-> r, exc |-> "", fmt |-> "", name |-> ""]

\* raise exc(fmt.format(name=name))
Raise(exc, fmt, name) ==
    [kind |-> "raise", runtime |-> NoObject, exc |-> exc, fmt |-> fmt, name |-> name]

\* the host has called nothing yet: no register, no constructor, and no
\* is_available whose answer would be on record
NoOps == [register |-> 0, construct |-> 0, registered |-> {}, answers |-> {}]

\* no call of the registry API yet
NoCall == [op |-> "init", name |-> "", environ |-> "", arg |-> NoObject,
           out |-> Return(NoObject)]

\* runtimes(): dict(_runtimes), a copy
runtimes(d) == d

\* the first runtime of the registry, is_available() not asked
AutoDetectLoopUnchecked(inst, h, d, i) ==
    IF i > Len(d)
      THEN [h |-> h, out |-> Raise("RuntimeUnavailable",
                                   "Could not find a JavaScript runtime.", "")]
      ELSE [h |-> h, out |-> Return(d[i].v)]

RECURSIVE AutoDetectLoop(_, _, _, _)
\* for runtime in _runtimes.values(): if runtime.is_available(): return runtime
AutoDetectLoop(inst, h, d, i) ==
    IF i > Len(d)
      THEN [h |-> h, out |-> Raise("RuntimeUnavailable",
                                   "Could not find a JavaScript runtime.", "")]
      ELSE LET a == is_available(inst, h, d[i].v)
           IN  IF a.res THEN [h |-> a.h, out |-> Return(d[i].v)]
               ELSE AutoDetectLoop(inst, a.h, d, i + 1)

RECURSIVE get(_, _, _, _, _)

\* the exception of get(name) caught and None returned in its place
get_from_environment_lenient(inst, h, d, environ) ==
    IF environ = None THEN [h |-> h, out |-> Return(NoObject)]
    ELSE IF environ = "" THEN [h |-> h, out |-> Return(NoObject)]
    ELSE LET g == get(inst, h, d, environ, environ)
         IN  IF g.out.kind = "raise" THEN [h |-> g.h, out |-> Return(NoObject)] ELSE g

\* get_from_environment: environ is os.environ.get("EXECJS_RUNTIME"), None when the
\* key is missing
get_from_environment(inst, h, d, environ) ==
    IF environ = None THEN [h |-> h, out |-> Return(NoObject)]
    ELSE IF environ = "" THEN [h |-> h, out |-> Return(NoObject)]
    ELSE get(inst, h, d, environ, environ)

\* an EXECJS_RUNTIME that cannot be used is passed over
_auto_detect_fallback(inst, h, d, environ) ==
    LET e == get_from_environment(inst, h, d, environ)
    IN  IF e.out.kind = "return" /\ e.out.runtime # NoObject THEN e
        ELSE AutoDetectLoop(inst, e.h, d, 1)

_auto_detect(inst, h, d, environ) ==
    LET e == get_from_environment(inst, h, d, environ)
    IN  IF e.out.kind = "raise" THEN e
        ELSE IF e.out.runtime # NoObject THEN e
        ELSE AutoDetectLoop(inst, e.h, d, 1)

\* get(name) that does not ask is_available()
get_unchecked(inst, h, d, name, environ) ==
    IF name = None THEN _auto_detect(inst, h, d, environ)
    ELSE IF name \notin DictKeys(runtimes(d))
      THEN [h |-> h, out |-> Raise("RuntimeUnavailable",
                                   "{name} runtime is not defined", name)]
    ELSE [h |-> h, out |-> Return(DictGet(runtimes(d), name))]

get(inst, h, d, name, environ) ==
    IF name = None THEN _auto_detect(inst, h, d, environ)
    ELSE IF name \notin DictKeys(runtimes(d))
      THEN [h |-> h, out |-> Raise("RuntimeUnavailable",
                                   "{name} runtime is not defined", name)]
    ELSE LET runtime == DictGet(runtimes(d), name)
             a == is_available(inst, h, runtime)
         IN  IF ~a.res
               THEN [h |-> a.h,
                     out |-> Raise("RuntimeUnavailable",
                                   "{name} runtime is not available on this system",
                                   a.h[runtime].name)]
               ELSE [h |-> a.h, out |-> Return(runtime)]

\* _runtimes.setdefault(name, runtime): a name already bound keeps its runtime
register_setdefault(d, name, runtime) ==
    IF name \in DictKeys(d) THEN d ELSE Append(d, [k |-> name, v |-> runtime])

\* register(name, runtime)
register(d, name, runtime) == DictSet(d, name, runtime)

(***************************************************************************)
(* Text.  A text is a sequence of tokens: "\n", "\r", and tokens that stand *)
(* for a run of other characters (a JSON bracket, comma or literal, or     *)
(* anything else).  A Python str value is a sequence of its characters.    *)
(***************************************************************************)
LF == "\n"
CR == "\r"

\* str.startswith
StartsWith(str, prefix) ==
    Len(str) >= Len(prefix) /\ SubSeq(str, 1, Len(prefix)) = prefix

RECURSIVE ReplaceCRLF(_)
\* text.replace("\r\n", "\n")
ReplaceCRLF(text) ==
    IF text = <<>> THEN <<>>
    ELSE IF Len(text) >= 2 /\ text[1] = CR /\ text[2] = LF
      THEN <<LF>> \o ReplaceCRLF(SubSeq(text, 3, Len(text)))
    ELSE <<text[1]>> \o ReplaceCRLF(Tail(text))

\* text.replace("\r", "\n")
ReplaceCR(text) == [i \in 1..Len(text) |-> IF text[i] = CR THEN LF ELSE text[i]]

RECURSIVE Split(_, _)
\* text.split(sep): one more element than there are separators
Split(text, sep) ==
    IF \A i \in 1..Len(text) : text[i] # sep THEN <<text>>
    ELSE LET i == CHOOSE i \in 1..Len(text) :
                      text[i] = sep /\ \A j \in 1..(i - 1) : text[j] # sep
         IN  <<SubSeq(text, 1, i - 1)>> \o Split(SubSeq(text, i + 1, Len(text)), sep)

(***************************************************************************)
(* JSON values, as Python holds them, and the codec (json.loads/dumps).    *)
(***************************************************************************)
PyNone == [t |-> "null", s |-> <<>>, n |-> 0, a |-> <<>>]
PyStr(chars) == [t |-> "str", s |-> chars, n |-> 0, a |-> <<>>]
PyInt(n) == [t |-> "int", s |-> <<>>, n |-> n, a |-> <<>>]
PyList(items) == [t |-> "list", s |-> <<>>, n |-> 0, a |-> items]

S_ok == <<"o", "k">>
S_err == <<"e", "r", "r">>
S_SyntaxErrorColon == <<"S", "y", "n", "t", "a", "x", "E", "r", "r", "o", "r", ":">>
S_SyntaxError_x == S_SyntaxErrorColon \o <<" ", "x">>
S_SyntaxError == <<"S", "y", "n", "t", "a", "x", "E", "r", "r", "o", "r">>
S_ReferenceError_x ==
    <<"R", "e", "f", "e", "r", "e", "n", "c", "e", "E", "r", "r", "o", "r", ":", " ", "x">>

\* the JSON literals of the model and the value each stands for
Literals ==
    [tok \in {"\"ok\"", "\"err\"", "\"SyntaxError: x\"", "\"SyntaxError\"",
              "\"ReferenceError: x\"", "3", "null"} |->
        CASE tok = "\"ok\"" -> PyStr(S_ok)
          [] tok = "\"err\"" -> PyStr(S_err)
          [] tok = "\"SyntaxError: x\"" -> PyStr(S_SyntaxError_x)
          [] tok = "\"SyntaxError\"" -> PyStr(S_SyntaxError)
          [] tok = "\"ReferenceError: x\"" -> PyStr(S_ReferenceError_x)
          [] tok = "3" -> PyInt(3)
          [] tok = "null" -> PyNone]

\* the literal of a scalar value
LiteralOf(v) == CHOOSE tok \in DOMAIN Literals : Literals[tok] = v

RECURSIVE DumpItems(_)
DumpItems(items) ==
    IF items = <<>> THEN <<>>
    ELSE IF Len(items) = 1 THEN <<LiteralOf(items[1])>>
    ELSE <<LiteralOf(items[1]), ",">> \o DumpItems(Tail(items))

\* JSON.stringify / json.dumps of a scalar or of an array of scalars
json_dumps(v) ==
    IF v.t = "list" THEN <<"[">> \o DumpItems(v.a) \o <<"]">>
    ELSE <<LiteralOf(v)>>

\* the items between the brackets: literals with a comma between two of them
WellFormedItems(toks) ==
    \/ toks = <<>>
    \/ /\ Len(toks) % 2 = 1
       /\ \A i \in 1..Len(toks) :
            IF i % 2 = 1 THEN toks[i] \in DOMAIN Literals ELSE toks[i] = ","

\* json.loads: [ok |-> TRUE, v |-> the value], or ok FALSE for a ValueError
json_loads(text) ==
    IF Len(text) = 1 /\ text[1] \in DOMAIN Literals
      THEN [ok |-> TRUE, v |-> Literals[text[1]]]
    ELSE IF /\ Len(text) >= 2
            /\ text[1] = "["
            /\ text[Len(text)] = "]"
            /\ WellFormedItems(SubSeq(text, 2, Len(text) - 1))
      THEN LET inner == SubSeq(text, 2, Len(text) - 1)
           IN  [ok |-> TRUE,
                v |-> PyList([i \in 1..((Len(inner) + 1) \div 2) |->
                                Literals[inner[2 * i - 1]]])]
    ELSE [ok |-> FALSE, v |-> PyNone]

(***************************************************************************)
(* Outcomes of a call of exec_: a returned value or a raised exception     *)
(* with its argument, a Python value or the raw bytes of the engine.       *)
(***************************************************************************)
NoText == <<>>
Returned(v) == [kind |-> "return", exc |-> "", value |-> v, raw |-> NoText, israw |-> FALSE]
Raised(exc, v) == [kind |-> "raise", exc |-> exc, value |-> v, raw |-> NoText, israw |-> FALSE]
RaisedRaw(exc, text) ==
    [kind |-> "raise", exc |-> exc, value |-> PyNone, raw |-> text, israw |-> TRUE]
Pending == [kind |-> "none", exc |-> "", value |-> PyNone, raw |-> NoText, israw |-> FALSE]

(***************************************************************************)
(* ExternalRuntime.Context._extract_result                                 *)
(***************************************************************************)
\* len(ret) of what json.loads returned; -1 for the TypeError of an int or None
PyLen(ret) ==
    CASE ret.t = "list" -> Len(ret.a)
      [] ret.t = "str" -> Len(ret.s)
      [] OTHER -> -1

\* ret[i] (1-based here) of a list or a str
PyItem(ret, i) == IF ret.t = "list" THEN ret.a[i] ELSE PyStr(<<ret.s[i]>>)

\* the message compared with 'SyntaxError:' for equality
ExtractStatusValueEq(status, value) ==
    IF status = PyStr(S_ok) THEN Returned(value)
    ELSE IF value.t # "str" THEN Raised("AttributeError", PyNone)
    ELSE IF value.s = S_SyntaxErrorColon THEN Raised("RuntimeError", value)
    ELSE Raised("ProgramError", value)

\* from `if status == "ok"` on
ExtractStatusValue(status, value) ==
    IF status = PyStr(S_ok) THEN Returned(value)
    ELSE IF value.t # "str" THEN Raised("AttributeError", PyNone)
    ELSE IF StartsWith(value.s, S_SyntaxErrorColon) THEN Raised("RuntimeError", value)
    ELSE Raised("ProgramError", value)

_extract_result(output_last_line) ==
    IF output_last_line = <<>>
      THEN ExtractStatusValue(PyNone, PyNone)
    ELSE LET loaded == json_loads(output_last_line)
             ret == loaded.v
         IN  IF ~loaded.ok THEN Raised("ValueError", PyNone)
             ELSE IF PyLen(ret) = -1 THEN Raised("TypeError", PyNone)
             ELSE IF PyLen(ret) = 1
               THEN ExtractStatusValue(PyItem(ret, 1), PyNone)
             ELSE IF PyLen(ret) # 2 THEN Raised("ValueError", PyNone)
             ELSE ExtractStatusValue(PyItem(ret, 1), PyItem(ret, 2))

\* exec_ after the finally: decode, normalise the line ends, split, take [-2]
ExtractFromOutput(output) ==
    LET text == ReplaceCR(ReplaceCRLF(output))
        lines == Split(text, LF)
    IN  IF Len(lines) < 2 THEN Raised("IndexError", PyNone)
        ELSE _extract_result(lines[Len(lines) - 1])

(***************************************************************************)
(* ExternalRuntime._execfile and ExternalRuntime.Context.exec_             *)
(***************************************************************************)
TempNames == {"execjs1.js", "execjs2.js"}

\* the temporary directory: a function from the names that exist to contents
NoFiles == <<>>
EmptyFile == [template |-> "", source |-> NoText]

\* Context._compile: the runner template of the runtime with the source in its slot
_compile(runner_source, source) == [template |-> runner_source, source |-> source]

\* the locals of exec_ before the call; self is the place in contexts of the
\* Context called, NoObject for the Context that runtime.exec_ makes and drops.
\* Three fields are no locals: program is the source argument as the caller
\* passed it, mkstemps and spawns count the calls of tempfile.mkstemp and of
\* Popen the call has made.
IdleCall ==
    [pc |-> "idle", self |-> NoObject, runtime |-> NoObject, _source |-> NoText,
     source |-> NoText, filename |-> None, spawned |-> FALSE, ret |-> 0,
     output |-> NoText, output_last_line |-> NoText, out |-> Pending,
     program |-> NoText, mkstemps |-> 0, spawns |-> 0]

\* the preamble put before the source whether there is one or not
exec_source_joined(_source, source) == _source \o <<LF>> \o source

\* exec_: if self._source: source = self._source + '\n' + source
exec_source(_source, source) ==
    IF _source # NoText THEN _source \o <<LF>> \o source ELSE source

\* os.remove(filename)
os_remove(dir, filename) == [f \in (DOMAIN dir) \ {filename} |-> dir[f]]

\* no finally clause: the exception leaves exec_ at once
TryNoFinally == "done"

\* where an exception raised inside `try:` goes: to the finally clause
TryFinally == "remove"

\* the exit status not looked at
_execfile_exit_ignored(ret, stdoutdata) == Pending

\* the end of _execfile: the bytes when ret == 0, RuntimeError(stdoutdata) otherwise
_execfile_exit(ret, stdoutdata) ==
    IF ret = 0 THEN Pending ELSE RaisedRaw("RuntimeError", stdoutdata)

\* runtime.exec_(source), and runtime.compile(preamble).exec_(source): the check of
\* is_available, Context.__init__, and the first statement of Context.exec_
Begin(runtime, preamble, source) ==
    /\ call.pc = "idle"
    /\ LET a == is_available(installed, heap, runtime)
       IN  /\ heap' = a.h
           /\ nops' = [nops EXCEPT !.answers = @ \cup {<<runtime, a.res>>}]
           /\ call' = IF ~a.res
                        THEN [call EXCEPT !.pc = "done", !.runtime = runtime,
                                          !.out = Raised("RuntimeUnavailable", PyNone)]
                        ELSE [call EXCEPT !.pc = "mkstemp", !.runtime = runtime,
                                          !._source = preamble,
                                          !.program = source,
                                          !.source = exec_source(preamble, source)]
    /\ UNCHANGED <<installed, _runtimes, last, tempdir, ctxVars>>

\* a temporary file of a name that may be in use: the file is made empty
MkstempAnyName ==
    /\ call.pc = "mkstemp"
    /\ \E f \in TempNames :
          /\ tempdir' = [g \in (DOMAIN tempdir) \cup {f} |->
                            IF g = f THEN EmptyFile ELSE tempdir[g]]
          /\ call' = [call EXCEPT !.pc = "write", !.filename = f, !.mkstemps = @ + 1]
    /\ UNCHANGED <<installed, heap, _runtimes, nops, last, ctxVars>>

\* tempfile.mkstemp and os.close: a new, empty file of a name not in use
Mkstemp ==
    /\ call.pc = "mkstemp"
    /\ \/ \E f \in TempNames \ DOMAIN tempdir :
            /\ tempdir' = [g \in (DOMAIN tempdir) \cup {f} |->
                              IF g = f THEN EmptyFile ELSE tempdir[g]]
            /\ call' = [call EXCEPT !.pc = "write", !.filename = f, !.mkstemps = @ + 1]
       \/ /\ call' = [call EXCEPT !.pc = "done", !.mkstemps = @ + 1,
                                  !.out = Raised("OSError", PyNone)]
          /\ UNCHANGED tempdir
    /\ UNCHANGED <<installed, heap, _runtimes, nops, last, ctxVars>>

\* with io.open(filename, "w+") as fp: fp.write(self._compile(source))
Write ==
    /\ call.pc = "write"
    /\ \/ /\ tempdir' = [tempdir EXCEPT ![call.filename] =
                            _compile(heap[call.runtime].runner_source, call.source)]
          /\ call' = [call EXCEPT !.pc = "execfile"]
       \/ /\ call' = [call EXCEPT !.pc = TryFinally, !.out = Raised("IOError", PyNone)]
          /\ UNCHANGED tempdir
    /\ UNCHANGED <<installed, heap, _runtimes, nops, last, ctxVars>>

\* _execfile tried again after an engine that ended with a status other than 0
ExecfileRetry(started, ret, stdoutdata) ==
    LET b == _binary(installed, heap, call.runtime)
    IN  /\ heap' = b.h
        /\ call' =
             IF b.res = NoCommand
               THEN [call EXCEPT !.pc = TryFinally, !.out = Raised("TypeError", PyNone)]
             ELSE IF ~started
               THEN [call EXCEPT !.pc = TryFinally, !.spawns = @ + 1,
                                 !.out = Raised("OSError", PyNone)]
             ELSE [call EXCEPT !.pc = IF ret = 0 THEN TryFinally ELSE "execfile",
                               !.spawned = TRUE, !.ret = ret,
                               !.spawns = @ + 1, !.output = stdoutdata,
                               !.out = _execfile_exit(ret, stdoutdata)]
        /\ UNCHANGED <<installed, _runtimes, nops, last, tempdir, ctxVars>>

\* self._runtime._execfile(filename): the engine fails to start, or runs and ends
\* with status ret having written stdoutdata
Execfile(started, ret, stdoutdata) ==
    LET b == _binary(installed, heap, call.runtime)
    IN  /\ heap' = b.h
        /\ call' =
             IF b.res = NoCommand
               THEN [call EXCEPT !.pc = TryFinally, !.out = Raised("TypeError", PyNone)]
             ELSE IF ~started
               THEN [call EXCEPT !.pc = TryFinally, !.spawns = @ + 1,
                                 !.out = Raised("OSError", PyNone)]
             ELSE [call EXCEPT !.pc = TryFinally, !.spawned = TRUE, !.ret = ret,
                               !.spawns = @ + 1, !.output = stdoutdata,
                               !.out = _execfile_exit(ret, stdoutdata)]
        /\ UNCHANGED <<installed, _runtimes, nops, last, tempdir, ctxVars>>

\* finally: os.remove(filename); a pending exception then leaves exec_
Remove ==
    /\ call.pc = "remove"
    /\ tempdir' = os_remove(tempdir, call.filename)
    /\ call' = [call EXCEPT !.pc = IF call.out.kind = "raise" THEN "done" ELSE "extract"]
    /\ UNCHANGED <<installed, heap, _runtimes, nops, last, ctxVars>>

\* output.decode, the two replace calls, split("\n")[-2] and _extract_result
Extract ==
    /\ call.pc = "extract"
    /\ LET lines == Split(ReplaceCR(ReplaceCRLF(call.output)), LF)
       IN  call' = [call EXCEPT !.pc = "done",
                                !.output_last_line =
                                    IF Len(lines) < 2 THEN NoText
                                    ELSE lines[Len(lines) - 1],
                                !.out = ExtractFromOutput(call.output)]
    /\ UNCHANGED <<installed, heap, _runtimes, nops, last, tempdir, ctxVars>>

\* exec_ returns to its caller, or the exception leaves it: the locals are gone
Finish ==
    /\ call.pc = "done"
    /\ call' = IdleCall
    /\ UNCHANGED <<installed, heap, _runtimes, nops, last, tempdir, ctxVars>>

(***************************************************************************)
(* Compiled contexts: runtime.compile(source) and context.exec_(source).   *)
(***************************************************************************)
MaxContexts == 2     \* Context objects the host keeps

\* Context.__init__
NewContext(runtime, source) == [_runtime |-> runtime, _source |-> source]

\* runtime.compile(source): the check of is_available, then Context(self, source)
Compile(runtime, source) ==
    /\ Len(contexts) < MaxContexts
    /\ LET a == is_available(installed, heap, runtime)
       IN  /\ heap' = a.h
           /\ nops' = [nops EXCEPT !.answers = @ \cup {<<runtime, a.res>>}]
           /\ contexts' = IF a.res THEN Append(contexts, NewContext(runtime, source))
                          ELSE contexts
           /\ last' = [op |-> "compile", name |-> "", environ |-> "",
                       arg |-> runtime, out |-> a.res]
    /\ UNCHANGED <<installed, _runtimes, tempdir, call, suspended>>

\* context.exec_(source), context one the host has compiled: the first statement
ContextExec(c, source) ==
    /\ call.pc = "idle"
    /\ call' = [call EXCEPT !.pc = "mkstemp", !.self = c,
                            !.runtime = contexts[c]._runtime,
                            !._source = contexts[c]._source,
                            !.program = source,
                            !.source = exec_source(contexts[c]._source, source)]
    /\ UNCHANGED <<installed, heap, _runtimes, nops, last, tempdir, ctxVars>>

(***************************************************************************)
(* The engine running a runner template (runner_source.py).  A JavaScript  *)
(* program is known by its last statement, and by whether `var x = 3;`     *)
(* stands before it.                                                       *)
(***************************************************************************)
VarX == "var x = 3;"

\* the user programs of the model
JsPrograms ==
    {<<"return 3">>, <<"return x">>, <<"return undefined">>, <<"return cyclic">>,
     <<"throw new SyntaxError('x')">>}

\* program(): what the function wrapped around the source does
JsRun(source) ==
    LET stmt == source[Len(source)]
        x_defined == \E i \in 1..Len(source) : source[i] = VarX
    IN  CASE stmt = "return 3" -> [k |-> "value", v |-> PyInt(3)]
          [] stmt = "return x" ->
               IF x_defined THEN [k |-> "value", v |-> PyInt(3)]
               ELSE [k |-> "throw", v |-> PyStr(S_ReferenceError_x)]
          [] stmt = "return undefined" -> [k |-> "undefined", v |-> PyNone]
          [] stmt = "return cyclic" -> [k |-> "cyclic", v |-> PyNone]
          [] OTHER -> [k |-> "throw", v |-> PyStr(S_SyntaxError_x)]

\* the line the template calls the envelope: what its last print is given
Envelope(template, outcome) ==
    CASE outcome.k = "throw" -> json_dumps(PyList(<<PyStr(S_err), outcome.v>>))
      [] outcome.k = "undefined" -> json_dumps(PyList(<<PyStr(S_ok)>>))
      [] outcome.k = "cyclic" -> json_dumps(PyList(<<PyStr(S_err)>>))
      [] OTHER -> json_dumps(PyList(<<PyStr(S_ok), outcome.v>>))

\* the arguments of the template's print calls, in order: on the way through
\* `try` a blank line and the envelope, from `catch` the envelope alone
RunnerPrints(template, outcome) ==
    IF outcome.k = "throw" THEN <<Envelope(template, outcome)>>
    ELSE <<NoText, Envelope(template, outcome)>>

\* a print that ends no line
print_bare(string, end) == string

\* print(string): the string and the line end of the engine
print(string, end) == string \o end

RECURSIVE PrintAll(_, _)
PrintAll(strings, end) ==
    IF strings = <<>> THEN NoText
    ELSE print(Head(strings), end) \o PrintAll(Tail(strings), end)

\* what the engine writes when it runs the file
RunnerOutput(file, end) == PrintAll(RunnerPrints(file.template, JsRun(file.source)), end)

\* _execfile with an engine that runs the file it is given: it ends with status
\* 0 when it could read the file and with status 1 when there is no such file
RunEngine(end) ==
    IF call.filename \notin DOMAIN tempdir
      THEN Execfile(TRUE, 1, <<"No such file">> \o end)
    ELSE IF tempdir[call.filename] = EmptyFile
      THEN Execfile(TRUE, 0, NoText)
    ELSE Execfile(TRUE, 0, RunnerOutput(tempdir[call.filename], end))

\* the interpreter takes the running thread off and puts the other thread on
Switch ==
    /\ call' = suspended
    /\ suspended' = call
    /\ UNCHANGED <<installed, heap, _runtimes, nops, last, tempdir, contexts>>

(***************************************************************************)
(* What the engine may write.                                              *)
(***************************************************************************)
MaxLines == 2     \* lines of engine output

\* the line ends of one engine: Unix, Windows, old Mac
LineEnds == {<<LF>>, <<CR, LF>>, <<CR>>}

\* what one line of output may hold
ExecLines ==
    {NoText,
     json_dumps(PyList(<<PyStr(S_ok), PyInt(3)>>)),
     json_dumps(PyList(<<PyStr(S_err), PyStr(S_SyntaxError_x)>>)),
     json_dumps(PyList(<<PyStr(S_err), PyStr(S_ReferenceError_x)>>)),
     json_dumps(PyList(<<PyStr(S_ok), PyInt(3), PyInt(3)>>)),
     <<"Segmentation fault">>}

RECURSIVE JoinLines(_, _)
\* each line followed by the line end
JoinLines(lines, end) ==
    IF lines = <<>> THEN NoText ELSE Head(lines) \o end \o JoinLines(Tail(lines), end)

\* up to MaxLines ended lines, and after them a last line without its line end
EngineOutputs ==
    {JoinLines(ls, end) \o tail :
        ls \in UNION {[1..n -> ExecLines] : n \in 0..MaxLines},
        end \in LineEnds, tail \in ExecLines}

\* the machines of this part: Node installed as nodejs and SpiderMonkey not
\* installed, or Node installed as node and SpiderMonkey as js
ExecMachines == {{"nodejs"}, {"node", "js"}}

ExecInit ==
    /\ installed \in ExecMachines
    /\ LET s == _setup_runtimes(installed)
       IN  heap = s.h /\ _runtimes = s.d
    /\ nops = NoOps
    /\ contexts = <<>>
    /\ suspended = IdleCall
    /\ last = NoCall
    /\ tempdir = NoFiles
    /\ call = IdleCall

ExecNext ==
    \/ \E name \in {"Node", "SpiderMonkey"}, preamble \in {NoText, <<"var a = 1;">>} :
            Begin(DictGet(_runtimes, name), preamble, <<"return a">>)
    \/ Mkstemp
    \/ Write
    \/ /\ call.pc = "execfile"
       /\ \/ Execfile(FALSE, 0, NoText)
          \/ \E ret \in {0, 1}, stdoutdata \in EngineOutputs : Execfile(TRUE, ret, stdoutdata)
    \/ Remove
    \/ Extract

ExecSpec == ExecInit /\ [][ExecNext]_vars

(***************************************************************************)
(* Calls of compiled contexts, one after the other, with an engine that    *)
(* runs the file: Node and SpiderMonkey are installed.                     *)
(***************************************************************************)
RunnerInit ==
    /\ installed = {"nodejs", "js"}
    /\ LET s == _setup_runtimes(installed)
       IN  heap = s.h /\ _runtimes = s.d
    /\ nops = NoOps
    /\ contexts = <<>>
    /\ suspended = IdleCall
    /\ last = NoCall
    /\ tempdir = NoFiles
    /\ call = IdleCall

\* the preambles the host compiles: none, and one that defines x
Preambles == {NoText, <<VarX>>}

RunnerNext ==
    \/ \E name \in {"Node", "SpiderMonkey"}, preamble \in Preambles :
            Compile(DictGet(_runtimes, name), preamble)
    \/ \E c \in 1..Len(contexts), source \in JsPrograms : ContextExec(c, source)
    \/ Mkstemp
    \/ Write
    \/ /\ call.pc = "execfile"
       /\ \E end \in LineEnds : RunEngine(end)
    \/ Remove
    \/ Extract
    \/ Finish

RunnerSpec == RunnerInit /\ [][RunnerNext]_vars

(***************************************************************************)
(* One call of runtime.exec_ for each family with a runner template, every *)
(* engine being installed.                                                 *)
(***************************************************************************)
\* the families of class ExternalRuntime
TemplateFamilies == {fam \in DOMAIN config : config[fam].runtime_type = "ExternalRuntime"}

TemplateInit ==
    /\ installed = {Head(config[fam].commands_to_try[1]) : fam \in TemplateFamilies}
    /\ LET s == _setup_runtimes(installed)
       IN  heap = s.h /\ _runtimes = s.d
    /\ nops = NoOps
    /\ contexts = <<>>
    /\ suspended = IdleCall
    /\ last = NoCall
    /\ tempdir = NoFiles
    /\ call = IdleCall

TemplateNext ==
    \/ \E fam \in TemplateFamilies, source \in JsPrograms :
            Begin(DictGet(_runtimes, fam), NoText, source)
    \/ Mkstemp
    \/ Write
    \/ /\ call.pc = "execfile"
       /\ \E end \in LineEnds : RunEngine(end)
    \/ Remove
    \/ Extract

TemplateSpec == TemplateInit /\ [][TemplateNext]_vars

(***************************************************************************)
(* Two threads of the host, each in a call of exec_: the interpreter runs  *)
(* one of them at a time and may change over between any two steps.        *)
(***************************************************************************)
\* the programs of the two threads: their results differ with the preamble
ThreadPrograms == {<<"return 3">>, <<"return x">>}

ThreadNext ==
    \/ \E preamble \in Preambles : Compile(DictGet(_runtimes, "Node"), preamble)
    \/ \E c \in 1..Len(contexts), source \in ThreadPrograms : ContextExec(c, source)
    \/ Mkstemp
    \/ Write
    \/ /\ call.pc = "execfile"
       /\ RunEngine(<<LF>>)
    \/ Remove
    \/ Extract
    \/ Finish
    \/ Switch

ThreadSpec == RunnerInit /\ [][ThreadNext]_vars

(***************************************************************************)
(* The host's inputs to the registry API.                                  *)
(***************************************************************************)
\* what the machine may have installed: the PyV8 module, both candidate commands
\* of Node, the command of SpiderMonkey and the command of a runtime the host
\* constructs; the commands of the other families are found on no machine here
Programs == {"PyV8", "nodejs", "node", "js", "myjs"}

\* names asked of get(): a family whose descriptor has another display name, a
\* family with an alias and the alias, the in-process family, names of no family
LookupNames == {"Node", "SpiderMonkey", "Spidermonkey", "PyV8", "Custom", "Zzz", ""}

\* values of os.environ.get("EXECJS_RUNTIME")
EnvironValues == {None, "", "Node", "Spidermonkey", "Custom", "Zzz"}

\* names given to register()
RegisterNames == {"Node", "SpiderMonkey", "Spidermonkey", "Custom"}

RegInit ==
    /\ installed \in SUBSET Programs
    /\ LET s == _setup_runtimes(installed)
       IN  heap = s.h /\ _runtimes = s.d
    /\ nops = NoOps
    /\ contexts = <<>>
    /\ suspended = IdleCall
    /\ last = NoCall
    /\ tempdir = NoFiles
    /\ call = IdleCall

\* the host constructs ExternalRuntime(name, command, runner_source)
Construct(name, command) ==
    /\ nops.construct < MaxConstruct
    /\ heap' = Append(heap, NewExternalRuntime(name, command, "node", "utf8"))
    /\ nops' = [nops EXCEPT !.construct = @ + 1]
    /\ last' = [op |-> "construct", name |-> name, environ |-> "",
                arg |-> Len(heap) + 1, out |-> Return(Len(heap) + 1)]
    /\ UNCHANGED <<installed, _runtimes, tempdir, call, ctxVars>>

\* register(name, runtime)
Register(name, runtime) ==
    /\ nops.register < MaxRegister
    /\ _runtimes' = register(_runtimes, name, runtime)
    /\ nops' = [nops EXCEPT !.register = @ + 1, !.registered = @ \cup {name}]
    /\ last' = [op |-> "register", name |-> name, environ |-> "",
                arg |-> runtime, out |-> Return(NoObject)]
    /\ UNCHANGED <<installed, heap, tempdir, call, ctxVars>>

\* get(name), name None for get(), under os.environ EXECJS_RUNTIME = environ
Get(name, environ) ==
    /\ LET g == get(installed, heap, _runtimes, name, environ)
       IN  /\ heap' = g.h
           /\ last' = [op |-> "get", name |-> name, environ |-> environ,
                       arg |-> NoObject, out |-> g.out]
    /\ UNCHANGED <<installed, _runtimes, nops, tempdir, call, ctxVars>>

\* the runtimes the host may hand to register(): those it constructed and those
\* it can read out of runtimes() under the names it registers
RegisterArgs ==
    {o \in 1..Len(heap) : o > Len(heap) - nops.construct}
        \cup {DictGet(_runtimes, n) : n \in RegisterNames \cap DictKeys(_runtimes)}

RegNext ==
    \/ Construct("Custom", <<"myjs">>)
    \/ \E name \in RegisterNames, runtime \in RegisterArgs : Register(name, runtime)
    \/ \E name \in LookupNames : Get(name, None)
    \/ \E environ \in EnvironValues : Get(None, environ)

RegSpec == RegInit /\ [][RegNext]_vars

(***************************************************************************)
(* _which on its own: the file system, the environment and the command are *)
(* the input.                                                              *)
(***************************************************************************)
MaxPath == 2     \* directories in PATH

\* the directories PATH may name
WhichDirs == {"/usr/bin", "/opt/bin"}

\* what os.stat may meet at a name
StatKinds == {"file_x", "file", "dir", "EACCES", "ENOENT"}

\* the commands looked up: a bare program, and JScript's program with its flags
WhichCommands == {<<"cscript">>, <<"cscript", "//E:jscript", "//Nologo">>}

\* the two platforms: Windows with PATHEXT = .EXE;.BAT, and any other
WhichPlatforms ==
    {[windows |-> TRUE, PATHEXT |-> <<".EXE", ".BAT">>],
     [windows |-> FALSE, PATHEXT |-> <<>>]}

\* the suffixes the platform tries
Suffixes(platform) == IF platform.windows THEN platform.PATHEXT ELSE <<"">>

WhichInit ==
    /\ installed = {"nodejs"}
    /\ LET s == _setup_runtimes(installed)
       IN  heap = s.h /\ _runtimes = s.d
    /\ nops = NoOps
    /\ contexts = <<>>
    /\ suspended = IdleCall
    /\ tempdir = NoFiles
    /\ call = IdleCall
    /\ \E platform \in WhichPlatforms, command \in WhichCommands,
          PATH \in UNION {[1..n -> WhichDirs] : n \in 1..MaxPath} :
          \E fs \in [WhichDirs \X {"cscript"}
                        \X {Suffixes(platform)[j] : j \in 1..Len(Suffixes(platform))}
                     -> StatKinds] :
             last = [op |-> "input", name |-> "", environ |-> "",
                     arg |-> [fs |-> fs, command |-> command,
                              env |-> [PATH |-> PATH, PATHEXT |-> platform.PATHEXT,
                                       windows |-> platform.windows]],
                     out |-> NotFound]

\* _which(command)
Which ==
    /\ last.op = "input"
    /\ last' = [last EXCEPT !.op = "_which",
                            !.out = _which_path(last.arg.fs, last.arg.env, last.arg.command)]
    /\ UNCHANGED <<installed, heap, _runtimes, nops, tempdir, call, ctxVars>>

WhichNext == Which

WhichSpec == WhichInit /\ [][WhichNext]_vars

(***************************************************************************)
(* The import of the module: _runtimes = _setup_runtimes().                *)
(***************************************************************************)
\* what the machine may have installed when the module is imported: Programs,
\* and the commands of JScript and PhantomJS
SetupPrograms == Programs \cup {"cscript", "phantomjs"}

\* before the import: no runtime object and no registry
SetupInit ==
    /\ installed \in SUBSET SetupPrograms
    /\ heap = <<>>
    /\ _runtimes = <<>>
    /\ nops = NoOps
    /\ contexts = <<>>
    /\ suspended = IdleCall
    /\ last = NoCall
    /\ tempdir = NoFiles
    /\ call = IdleCall

\* import execjs
Import ==
    /\ last.op = "init"
    /\ LET s == _setup_runtimes(installed)
       IN  heap' = s.h /\ _runtimes' = s.d
    /\ last' = [last EXCEPT !.op = "import"]
    /\ UNCHANGED <<installed, nops, tempdir, call, ctxVars>>

SetupNext == Import

SetupSpec == SetupInit /\ [][SetupNext]_vars

(***************************************************************************)
(* execjs/_runtimes.py: the registry built from a runtime map.  The module *)
(* imports the package first, then execjs._external_runtime, whose module  *)
(* objects the runtime map names.                                          *)
(***************************************************************************)
\* runtime_preferred_order of _runtimes.py
_runtimes_py_runtime_preferred_order ==
    <<"PyV8", "Node", "JavaScriptCore", "SpiderMonkey", "JScript", "PhantomJS", "SlimerJS",
      "Nashorn">>

\* the attributes of execjs._external_runtime that _setup_runtime_map reads
external_runtime_attributes ==
    <<"jsc", "jscript", "nashorn", "phantomjs", "slimerjs", "node", "nodejs">>

\* the ExternalRuntime object behind an attribute of execjs._external_runtime
external_runtime_object(attr) ==
    CASE attr = "jsc" ->
           NewExternalRuntime("JavaScriptCore", <<"jsc">>, "javascriptcore", "utf8")
      [] attr = "jscript" ->
           NewExternalRuntime("JScript", <<"cscript", "//E:jscript", "//Nologo">>,
                              "jscript", "ascii")
      [] attr = "nashorn" -> NewExternalRuntime("Nashorn", <<"jjs">>, "nashorn", "utf8")
      [] attr = "phantomjs" ->
           NewExternalRuntime("PhantomJS", <<"phantomjs">>, "phantomjs", "utf8")
      [] attr = "slimerjs" ->
           NewExternalRuntime("SlimerJS", <<"slimerjs">>, "phantomjs", "utf8")
      [] attr = "node" -> NewExternalRuntime("Node.js (V8)", <<"node">>, "node", "UTF-8")
      [] attr = "nodejs" -> NewExternalRuntime("Node.js (V8)", <<"nodejs">>, "node", "UTF-8")

\* import execjs._external_runtime: its objects are made after those the heap
\* holds already
import_external_runtime(h) ==
    h \o [i \in 1..Len(external_runtime_attributes) |->
             external_runtime_object(external_runtime_attributes[i])]

\* external_runtime.attr, the module having been imported onto a heap of base
\* objects
external_runtime(base, attr) ==
    base + (CHOOSE i \in 1..Len(external_runtime_attributes) :
                external_runtime_attributes[i] = attr)

\* _setup_runtime_map(): the dict literal, in which PyV8Runtime() is made, then
\* the Node entry, which is node when node is available and nodejs otherwise
_setup_runtime_map(inst, h, base) ==
    LET h1 == Append(h, NewPyV8Runtime(inst))
        runtime_map ==
            << [k |-> "JavaScriptCore", v |-> external_runtime(base, "jsc")],
               [k |-> "JScript", v |-> external_runtime(base, "jscript")],
               [k |-> "Nashorn", v |-> external_runtime(base, "nashorn")],
               [k |-> "PhantomJS", v |-> external_runtime(base, "phantomjs")],
               [k |-> "PyV8", v |-> Len(h1)],
               [k |-> "SlimerJS", v |-> external_runtime(base, "slimerjs")] >>
        a == is_available(inst, h1, external_runtime(base, "node"))
    IN  [h |-> a.h,
         d |-> DictSet(runtime_map, "Node",
                       IF a.res THEN external_runtime(base, "node")
                       ELSE external_runtime(base, "nodejs"))]

RECURSIVE SetupFromMap(_, _, _)
\* the loop of _setup_runtimes(runtime_map), from name j of the order on:
\* runtime_map[runtime_name] raises KeyError for a name that is no key
SetupFromMap(runtime_map, d, j) ==
    IF j > Len(_runtimes_py_runtime_preferred_order)
      THEN [out |-> Return(NoObject), d |-> d]
    ELSE LET runtime_name == _runtimes_py_runtime_preferred_order[j]
         IN  IF runtime_name \notin DictKeys(runtime_map)
               THEN [out |-> Raise("KeyError", "{name}", runtime_name), d |-> d]
               ELSE SetupFromMap(runtime_map,
                                 DictSet(d, runtime_name, DictGet(runtime_map, runtime_name)),
                                 j + 1)

\* _setup_runtimes(runtime_map) of _runtimes.py
_runtimes_py_setup_runtimes(runtime_map) == SetupFromMap(runtime_map, <<>>, 1)

\* what the machine may have installed: the commands of the families of either
\* priority list
MapPrograms == {"PyV8", "nodejs", "node", "js", "jsc", "cscript", "jjs"}

\* before any import
MapInit ==
    /\ installed \in SUBSET MapPrograms
    /\ heap = <<>>
    /\ _runtimes = <<>>
    /\ nops = NoOps
    /\ contexts = <<>>
    /\ suspended = IdleCall
    /\ last = NoCall
    /\ tempdir = NoFiles
    /\ call = IdleCall

\* import execjs._runtimes, the package being imported: last.arg is the
\* module's global _runtimes, which is bound only when _setup_runtimes returns;
\* the objects made on the way stay
ImportRuntimes ==
    /\ last.op = "import"
    /\ LET base == Len(heap)
           m == _setup_runtime_map(installed, import_external_runtime(heap), base)
           s == _runtimes_py_setup_runtimes(m.d)
       IN  /\ heap' = m.h
           /\ last' = [last EXCEPT !.op = "import_runtimes",
                                   !.arg = IF s.out.kind = "return" THEN s.d ELSE NoObject,
                                   !.out = s.out]
    /\ UNCHANGED <<installed, _runtimes, nops, tempdir, call, ctxVars>>

MapNext == Import \/ ImportRuntimes

MapSpec == MapInit /\ [][MapNext]_vars

(***************************************************************************)
(* get_from_environment called by the host itself.                         *)
(***************************************************************************)
\* get_from_environment(), under os.environ EXECJS_RUNTIME = environ
GetFromEnvironment(environ) ==
    /\ LET g == get_from_environment(installed, heap, _runtimes, environ)
       IN  /\ heap' = g.h
           /\ last' = [op |-> "get_from_environment", name |-> "", environ |-> environ,
                       arg |-> NoObject, out |-> g.out]
    /\ UNCHANGED <<installed, _runtimes, nops, tempdir, call, ctxVars>>

EnvNext == \E environ \in EnvironValues : GetFromEnvironment(environ)

EnvSpec == RegInit /\ [][EnvNext]_vars

(***************************************************************************)
(* The descriptor's cache while the search path changes: programs come and *)
(* go between the host's calls of is_available and exec_.                  *)
(***************************************************************************)
\* the programs that are installed or removed while the process runs: a
\* candidate command of Node and the command of the host's own runtime
CachePrograms == {"nodejs", "myjs"}

CacheInit ==
    /\ installed \in SUBSET CachePrograms
    /\ LET s == _setup_runtimes(installed)
       IN  heap = s.h /\ _runtimes = s.d
    /\ nops = NoOps
    /\ contexts = <<>>
    /\ suspended = IdleCall
    /\ last = NoCall
    /\ tempdir = NoFiles
    /\ call = IdleCall

\* somebody installs prog in a directory of the search path
Install(prog) ==
    /\ prog \notin installed
    /\ installed' = installed \cup {prog}
    /\ UNCHANGED <<heap, _runtimes, nops, last, tempdir, call, ctxVars>>

\* somebody removes prog from the search path
Uninstall(prog) ==
    /\ prog \in installed
    /\ installed' = installed \ {prog}
    /\ UNCHANGED <<heap, _runtimes, nops, last, tempdir, call, ctxVars>>

\* runtime.is_available(), called by the host
IsAvailable(runtime) ==
    /\ LET a == is_available(installed, heap, runtime)
       IN  /\ heap' = a.h
           /\ nops' = [nops EXCEPT !.answers = @ \cup {<<runtime, a.res>>}]
           /\ last' = [op |-> "is_available", name |-> "", environ |-> "",
                       arg |-> runtime, out |-> a.res]
    /\ UNCHANGED <<installed, _runtimes, tempdir, call, ctxVars>>

\* the runtimes the host asks: the one of the registry's Node family and the
\* ones it has constructed
CacheObjects ==
    {DictGet(_runtimes, "Node")}
        \cup {o \in 1..Len(heap) : o > Len(heap) - nops.construct}

\* what the engine writes here: a blank line and ["ok", 3]
OkOutput == <<LF>> \o json_dumps(PyList(<<PyStr(S_ok), PyInt(3)>>)) \o <<LF>>

CacheNext ==
    \/ \E prog \in CachePrograms : Install(prog)
    \/ \E prog \in CachePrograms : Uninstall(prog)
    \/ Construct("Custom", <<"myjs">>)
    \/ \E runtime \in CacheObjects : IsAvailable(runtime)
    \/ \E runtime \in CacheObjects : Compile(runtime, NoText)
    \/ \E runtime \in CacheObjects : Begin(runtime, NoText, <<"return 3">>)
    \/ Mkstemp
    \/ Write
    \/ /\ call.pc = "execfile"
       /\ \/ Execfile(FALSE, 0, NoText)
          \/ \E ret \in {0, 1} : Execfile(TRUE, ret, OkOutput)
    \/ Remove
    \/ Extract
    \/ Finish

CacheSpec == CacheInit /\ [][CacheNext]_vars



(***************************************************************************)
(* _extract_result on its own: the line is the input.                      *)
(***************************************************************************)
MaxItems == 2     \* elements of a JSON array

Scalars == {Literals[tok] : tok \in DOMAIN Literals}

\* the lines given to _extract_result: the empty line, every scalar and every
\* array of up to MaxItems scalars as the engine prints them, and lines that are
\* no JSON
ExtractLines ==
    {NoText, <<"Segmentation fault">>, <<"[", "\"ok\"">>, <<"[", "\"ok\"", ",", "]">>}
        \cup {json_dumps(v) : v \in Scalars}
        \cup {json_dumps(PyList(items)) :
                items \in UNION {[1..n -> Scalars] : n \in 0..MaxItems}}

ExtractInit ==
    /\ installed = {"nodejs"}
    /\ LET s == _setup_runtimes(installed)
       IN  heap = s.h /\ _runtimes = s.d
    /\ nops = NoOps
    /\ contexts = <<>>
    /\ suspended = IdleCall
    /\ last = NoCall
    /\ tempdir = NoFiles
    /\ \E line \in ExtractLines :
          call = [IdleCall EXCEPT !.pc = "line", !.output_last_line = line]

\* self._extract_result(output_last_line)
ExtractResult ==
    /\ call.pc = "line"
    /\ call' = [call EXCEPT !.pc = "done", !.out = _extract_result(call.output_last_line)]
    /\ UNCHANGED <<installed, heap, _runtimes, nops, last, tempdir, ctxVars>>

ExtractNext == ExtractResult

ExtractSpec == ExtractInit /\ [][ExtractNext]_vars

(***************************************************************************)
(* encode_unicode_codepoints.  A str is here the sequence of its code      *)
(* points, as Python 3 holds it.                                           *)
(***************************************************************************)
MaxChars == 2     \* code points of the input

\* the code points of the inputs: ends and middles of the ASCII range, of the
\* range of two, three and four hex digits, and two code points above U+FFFF
CodePoints == {0, 65, 127, 128, 255, 19990, 65535, 65536, 128512}

\* the code point of a lowercase hex digit: '0'..'9' are 48..57, 'a'..'f' 97..102
HexDigit(d) == IF d < 10 THEN 48 + d ELSE 87 + d

RECURSIVE Hex(_)
\* format(n, 'x'): as many digits as n needs, at least one
Hex(n) == IF n < 16 THEN <<HexDigit(n)>> ELSE Hex(n \div 16) \o <<HexDigit(n % 16)>>

\* the fill of '04': zeros on the left up to the width, nothing cut off
ZeroFill(digits, width) ==
    IF Len(digits) >= width THEN digits
    ELSE [i \in 1..(width - Len(digits)) |-> 48] \o digits

\* codepoint_format = '\\u{0:04x}'.format: backslash, u, the digits
codepoint_format(n) == <<92, 117>> \o ZeroFill(Hex(n), 4)

\* codepoint(m): ord of the one character matched
codepoint(ch) == codepoint_format(ch)

RECURSIVE encode_unicode_codepoints(_)
\* re.sub('[^\x00-\x7f]', codepoint, str)
encode_unicode_codepoints(str) ==
    IF str = <<>> THEN <<>>
    ELSE (IF Head(str) > 127 THEN codepoint(Head(str)) ELSE <<Head(str)>>)
            \o encode_unicode_codepoints(Tail(str))

EncodeInputs == UNION {[1..n -> CodePoints] : n \in 0..MaxChars}

EncodeInit ==
    /\ installed = {"nodejs"}
    /\ LET s == _setup_runtimes(installed)
       IN  heap = s.h /\ _runtimes = s.d
    /\ nops = NoOps
    /\ contexts = <<>>
    /\ suspended = IdleCall
    /\ tempdir = NoFiles
    /\ call = IdleCall
    /\ \E str \in EncodeInputs :
          last = [op |-> "input", name |-> "", environ |-> "", arg |-> str,
                  out |-> <<>>]

\* encode_unicode_codepoints(str)
Encode ==
    /\ last.op = "input"
    /\ last' = [last EXCEPT !.op = "encode_unicode_codepoints",
                            !.out = encode_unicode_codepoints(last.arg)]
    /\ UNCHANGED <<installed, heap, _runtimes, nops, tempdir, call, ctxVars>>

EncodeNext == Encode

EncodeSpec == EncodeInit /\ [][EncodeNext]_vars

(***************************************************************************)
(* Properties of the selector and the registry (RegSpec).                  *)
(***************************************************************************)
\* what r.is_available() answers in this state
Available(r) == is_available(installed, heap, r).res

\* the places of the registry whose runtime is available
AvailablePlaces == {i \in 1..Len(_runtimes) : Available(_runtimes[i].v)}

IsRuntimeUnavailable(out) == out.kind = "raise" /\ out.exc = "RuntimeUnavailable"

\* C1: get() with no name, EXECJS_RUNTIME absent or empty, returns the runtime of
\* the first place of the registry (in its order) whose runtime is available,
\* whatever unavailable runtimes stand before it, and raises RuntimeUnavailable
\* when no runtime of the registry is available.
C1_AutoDetectFirstAvailable ==
    (last.op = "get" /\ last.name = None /\ last.environ \in {None, ""}) =>
        IF AvailablePlaces = {}
          THEN IsRuntimeUnavailable(last.out)
          ELSE \E i \in AvailablePlaces :
                  /\ \A j \in AvailablePlaces : i <= j
                  /\ last.out = Return(_runtimes[i].v)

\* get() has passed over an unavailable runtime and returned a later one
C1_Witness ==
    /\ last.op = "get" /\ last.name = None /\ last.environ \in {None, ""}
    /\ last.out.kind = "return"
    /\ ~Available(_runtimes[1].v)
    /\ \E i \in 2..Len(_runtimes) : last.out.runtime = _runtimes[i].v

\* EXECJS_RUNTIME names no runtime that can be used
EnvironUnusable(environ) ==
    /\ environ \notin {None, ""}
    /\ \/ environ \notin DictKeys(_runtimes)
       \/ ~Available(DictGet(_runtimes, environ))

\* C2: get() with no name under a non-empty EXECJS_RUNTIME that names an unknown
\* or unavailable family raises RuntimeUnavailable; no runtime is returned, also
\* when another runtime of the registry is available.
C2_EnvironFailsFast ==
    (last.op = "get" /\ last.name = None /\ EnvironUnusable(last.environ)) =>
        IsRuntimeUnavailable(last.out)

\* get() has failed on EXECJS_RUNTIME although a runtime is available
C2_Witness ==
    /\ last.op = "get" /\ last.name = None /\ EnvironUnusable(last.environ)
    /\ last.out.kind = "raise"
    /\ AvailablePlaces # {}

\* get(name), name given: the outcome, the unavailable family named by `naming`
GetByName(naming) ==
    IF last.name \notin DictKeys(_runtimes)
      THEN last.out = Raise("RuntimeUnavailable", "{name} runtime is not defined",
                            last.name)
    ELSE IF Available(DictGet(_runtimes, last.name))
      THEN last.out = Return(DictGet(_runtimes, last.name))
    ELSE last.out = Raise("RuntimeUnavailable",
                          "{name} runtime is not available on this system", naming)

\* C3 as claimed: get(name) returns the runtime bound to name when name is a key
\* of the registry and that runtime is available; it raises RuntimeUnavailable
\* naming name when name is no key, and RuntimeUnavailable naming name when its
\* runtime is not available.
C3_Original ==
    (last.op = "get" /\ last.name # None) => GetByName(last.name)

\* C3 as amended: as claimed, but the RuntimeUnavailable of a known, unavailable
\* runtime names the runtime's own name attribute (runtime.name), which need not
\* be the name looked up.
C3_GetByName ==
    (last.op = "get" /\ last.name # None) =>
        GetByName(heap[DictGet(_runtimes, last.name)].name)

\* get("Node") has failed, naming "Node.js (V8)"
C3_Witness ==
    /\ last.op = "get" /\ last.name = "Node"
    /\ IsRuntimeUnavailable(last.out)
    /\ last.out.name = "Node.js (V8)"

\* the declared alias names with the family of each
Aliases ==
    {<<fam, config[fam].alternate_names[i]>> :
        fam \in {f \in DOMAIN config : config[f].alternate_names # <<>>},
        i \in {1}}

\* looking up the alias gives the very object that looking up the family gives
AliasIdentical(fam, alias) ==
    /\ fam \in DictKeys(_runtimes)
    /\ alias \in DictKeys(_runtimes)
    /\ DictGet(_runtimes, alias) = DictGet(_runtimes, fam)

\* C9 as claimed: in every state of the registry, after any register calls, a
\* declared alias is bound to the same object as its family's primary name.
C9_Original == \A p \in Aliases : AliasIdentical(p[1], p[2])

\* C9 as amended: a declared alias is bound to the same object as its family's
\* primary name as long as register has been called with neither of the two
\* names.
C9_AliasIdenticalUntilRegistered ==
    \A p \in Aliases :
        (nops.registered \cap {p[1], p[2]} = {}) => AliasIdentical(p[1], p[2])

\* register has been called, with another name, and the alias still agrees
C9_Witness ==
    /\ last.op = "register"
    /\ nops.registered # {}
    /\ \A p \in Aliases :
          nops.registered \cap {p[1], p[2]} = {} /\ AliasIdentical(p[1], p[2])

\* a lookup of name, by get(name) or by EXECJS_RUNTIME, is answered from runtime r
ResolvesTo(h, out, r) ==
    \/ out = Return(r)
    \/ /\ ~is_available(installed, h, r).res
       /\ out = Raise("RuntimeUnavailable",
                      "{name} runtime is not available on this system", h[r].name)

\* one step of the registry API, seen from its end
C10_Step ==
    /\ (last'.op = "register" =>
          /\ DictGet(_runtimes', last'.name) = last'.arg
          /\ DictKeys(_runtimes') = DictKeys(_runtimes) \cup {last'.name}
          /\ \A n \in DictKeys(_runtimes) \ {last'.name} :
                DictGet(_runtimes', n) = DictGet(_runtimes, n))
    /\ (last'.op # "register" => _runtimes' = _runtimes)
    /\ (last'.op = "get" /\ last'.name # None /\ last'.name \in DictKeys(_runtimes) =>
          ResolvesTo(heap', last'.out, DictGet(_runtimes, last'.name)))
    /\ (last'.op = "get" /\ last'.name = None /\ last'.environ \in DictKeys(_runtimes) =>
          ResolvesTo(heap', last'.out, DictGet(_runtimes, last'.environ)))

\* C10: register(name, r) binds name to r and leaves the binding of every other
\* name as it was; no other operation changes a binding; and every lookup of a
\* bound name, runtimes()[name], get(name) or get() under EXECJS_RUNTIME = name,
\* is answered from the runtime the name is bound to, the one last registered.
C10_RegisterTakesPrecedence == [][C10_Step]_vars

\* get("Node") has returned the runtime the host registered under "Node"
C10_Witness ==
    /\ last.op = "get" /\ last.name = "Node"
    /\ "Node" \in nops.registered
    /\ last.out.kind = "return"
    /\ heap[last.out.runtime].name = "Custom"

(***************************************************************************)
(* Properties of _extract_result (ExtractSpec).                            *)
(***************************************************************************)
\* _extract_result has been applied to the line that prints the array `items`
ExtractedFrom(items) ==
    call.pc = "done" /\ call.output_last_line = json_dumps(PyList(items))

\* C5: on a well-formed envelope _extract_result does this: ["ok", v] returns v;
\* ["ok"] returns None; [s, m], s other than "ok" and m a string, raises
\* RuntimeError(m) when m begins with "SyntaxError:" and ProgramError(m) otherwise.
C5_ExtractEnvelope ==
    /\ \A v \in Scalars :
          ExtractedFrom(<<PyStr(S_ok), v>>) => call.out = Returned(v)
    /\ ExtractedFrom(<<PyStr(S_ok)>>) => call.out = Returned(PyNone)
    /\ \A s \in Scalars \ {PyStr(S_ok)} :
       \A m \in {x \in Scalars : x.t = "str"} :
          ExtractedFrom(<<s, m>>) =>
             call.out = Raised(IF StartsWith(m.s, S_SyntaxErrorColon)
                                 THEN "RuntimeError" ELSE "ProgramError", m)

\* ["err", "SyntaxError: x"] has raised RuntimeError
C5_Witness ==
    /\ ExtractedFrom(<<PyStr(S_err), PyStr(S_SyntaxError_x)>>)
    /\ call.out = Raised("RuntimeError", PyStr(S_SyntaxError_x))

\* C6 as claimed: _extract_result of the empty line, and of the line [], returns
\* None and raises nothing.
C6_Claim ==
    (call.pc = "done" /\ call.output_last_line \in {NoText, json_dumps(PyList(<<>>))}) =>
        call.out = Returned(PyNone)

(***************************************************************************)
(* Properties of exec_ (ExecSpec).                                         *)
(***************************************************************************)
\* C4: when a call of exec_ has returned or raised, the temporary file it made
\* does not exist, whichever way the call has ended.
C4_TempFileRemoved ==
    call.pc = "done" => call.filename \notin DOMAIN tempdir

\* exec_ has made its file and has ended with the engine failing to start
C4_Witness ==
    /\ call.pc = "done"
    /\ call.filename \in TempNames
    /\ ~call.spawned
    /\ call.out = Raised("OSError", PyNone)
    /\ tempdir = NoFiles

\* the output of the engine has no usable result line: fewer than two lines, or
\* the line before the last is text that is no JSON, or a JSON array of neither
\* one nor two elements
NoUsableLine(output) ==
    LET lines == Split(ReplaceCR(ReplaceCRLF(output)), LF)
        line == lines[Len(lines) - 1]
    IN  \/ Len(lines) < 2
        \/ /\ line # NoText
           /\ \/ ~json_loads(line).ok
              \/ /\ json_loads(line).v.t = "list"
                 /\ Len(json_loads(line).v.a) \notin {1, 2}

\* C7 as claimed: when the engine has ended with status 0 and its output has no
\* usable result line, exec_ raises RuntimeError carrying the raw text.
C7_Claim ==
    (call.pc = "done" /\ call.spawned /\ call.ret = 0 /\ NoUsableLine(call.output)) =>
        /\ call.out.kind = "raise"
        /\ call.out.exc = "RuntimeError"
        /\ call.out.israw /\ call.out.raw = call.output

\* C8: when the engine has ended with a status other than 0, exec_ raises
\* RuntimeError with the captured output as it was written; the call never comes
\* to the extraction of a result and returns no value.
C8_NonZeroExit ==
    (call.spawned /\ call.ret # 0) =>
        /\ call.pc \in {"remove", "done"}
        /\ call.out = RaisedRaw("RuntimeError", call.output)

\* the engine has ended with status 1 after printing a blank line and ["ok", 3]
C8_Witness ==
    /\ call.pc = "done" /\ call.spawned /\ call.ret = 1
    /\ call.output = <<CR, LF>> \o json_dumps(PyList(<<PyStr(S_ok), PyInt(3)>>)) \o <<CR, LF>>
    /\ call.out.exc = "RuntimeError"

\* Context.exec_ has been entered and is past its call of tempfile.mkstemp
PastMkstemp(k) ==
    /\ k.pc \in {"write", "execfile", "remove", "extract", "done"}
    /\ k.out # Raised("RuntimeUnavailable", PyNone)

\* C16: a call of exec_ calls mkstemp exactly once, so it makes one temporary
\* file (none only when mkstemp itself raises), and starts the engine at most
\* once; when the engine could not be started or has ended with a status other
\* than 0, and when its output has no usable result line, the call raises and
\* the engine is not started again.
C16_OneFileOneSpawn ==
    /\ call.mkstemps <= 1
    /\ call.spawns <= 1
    /\ PastMkstemp(call) =>
          /\ call.mkstemps = 1
          /\ call.filename = None =>
                (call.pc = "done" /\ call.out = Raised("OSError", PyNone))
    /\ (call.spawns = 1 /\ (~call.spawned \/ call.ret # 0)) =>
          (call.pc \in {"remove", "done"} /\ call.out.kind = "raise")
    /\ (call.pc = "done" /\ call.spawned /\ call.ret = 0 /\ NoUsableLine(call.output)) =>
          (call.out.kind = "raise" /\ call.spawns = 1)

\* the engine has ended with status 1 and the call has raised, after one file
\* and one engine
C16_Witness ==
    /\ call.pc = "done" /\ call.spawned /\ call.ret = 1
    /\ call.out.kind = "raise"
    /\ call.mkstemps = 1 /\ call.spawns = 1
    /\ call.filename \in TempNames

(***************************************************************************)
(* Properties of the runner templates under exec_ (TemplateSpec).          *)
(***************************************************************************)
\* C20: for every runner template and a user program that prints nothing, the
\* line exec_ takes, the last but one after the line ends are made "\n" and the
\* output is split at "\n", is the envelope: on the success path, where the
\* template prints a blank line and then the envelope, and on the exception
\* path, where it prints the envelope alone.
C20_EnvelopeIsLastButOne ==
    (call.pc = "done" /\ call.spawned /\ call.ret = 0) =>
        call.output_last_line =
            Envelope(heap[call.runtime].runner_source, JsRun(call.source))

\* JScript's template has printed the envelope alone, from catch, with the line
\* end "\r\n", and exec_ has taken it
C20_Witness ==
    /\ call.pc = "done" /\ call.spawned
    /\ heap[call.runtime].runner_source = "jscript"
    /\ call.output =
          json_dumps(PyList(<<PyStr(S_err), PyStr(S_ReferenceError_x)>>)) \o <<CR, LF>>
    /\ call.output_last_line =
          json_dumps(PyList(<<PyStr(S_err), PyStr(S_ReferenceError_x)>>))
    /\ call.out = Raised("ProgramError", PyStr(S_ReferenceError_x))

(***************************************************************************)
(* Properties of two concurrent calls of exec_ (ThreadSpec).               *)
(***************************************************************************)
\* the call has a temporary file that it has not removed yet
HoldsFile(k) == k.pc \in {"write", "execfile", "remove"}

\* the wrapped program of the call: its runtime's template around its source
WrappedProgram(k) == _compile(heap[k.runtime].runner_source, k.source)

\* the call's file, program, engine output and result are its own
OwnCall(k) ==
    /\ HoldsFile(k) => k.filename \in DOMAIN tempdir
    /\ k.pc = "execfile" => tempdir[k.filename] = WrappedProgram(k)
    /\ k.spawned =>
          /\ k.ret = 0
          /\ k.output = RunnerOutput(WrappedProgram(k), <<LF>>)
    /\ (k.pc = "done" /\ k.spawned) =>
          k.out = ExtractFromOutput(RunnerOutput(WrappedProgram(k), <<LF>>))

\* C19: however two calls of exec_ of two threads are interleaved, on one
\* context or on two, each call's engine is run on the call's own temporary
\* file, which exists then and holds the call's wrapped program; the files of
\* the two calls are two files, and a call's file is there until the call itself
\* removes it; each call's result is decoded from the output of its own engine.
C19_CallsDoNotInterfere ==
    /\ OwnCall(call)
    /\ OwnCall(suspended)
    /\ (HoldsFile(call) /\ HoldsFile(suspended)) => call.filename # suspended.filename

\* both calls are under way with a file each: one has run its engine, the other
\* is about to, on another context and another wrapped program
C19_Witness ==
    /\ call.pc = "remove" /\ call.spawned
    /\ suspended.pc = "execfile"
    /\ call.self # suspended.self
    /\ call.program = suspended.program
    /\ DOMAIN tempdir = TempNames
    /\ tempdir[call.filename] # tempdir[suspended.filename]

(***************************************************************************)
(* Properties of the descriptor's cache (CacheSpec).                       *)
(***************************************************************************)
\* C11: for each ExternalRuntime object, whatever is_available, exec_, eval and
\* compile calls are made on it, _which is called at most once, also when the
\* first call found no binary; and all the answers is_available has given for
\* one object are the same, the first one, though the binary has come to the
\* search path or gone from it since.
C11_LookupAtMostOnce ==
    /\ \A o \in 1..Len(heap) : heap[o].which_calls <= 1
    /\ \A p, q \in nops.answers : p[1] = q[1] => p[2] = q[2]

\* is_available has answered False for the host's runtime a second time, now
\* with its command on the search path
C11_Witness ==
    /\ last.op = "is_available"
    /\ last.out = FALSE
    /\ heap[last.arg].name = "Custom"
    /\ heap[last.arg].which_calls = 1
    /\ Head(heap[last.arg].command) \in installed

(***************************************************************************)
(* Properties of encode_unicode_codepoints (EncodeSpec).                   *)
(***************************************************************************)
\* the number that a lowercase hex digit stands for, -1 for another character
HexValue(c) ==
    IF c \in 48..57 THEN c - 48 ELSE IF c \in 97..102 THEN c - 87 ELSE -1

RECURSIVE EscapedAsClaimed(_, _)
\* out is str with every code point of 0x80 and above replaced by a backslash,
\* a u and four lowercase hex digits (those of the code point's number when
\* four digits can hold it), and every other code point kept, in its place
EscapedAsClaimed(str, out) ==
    IF str = <<>> THEN out = <<>>
    ELSE IF Head(str) < 128
      THEN /\ Len(out) >= 1
           /\ out[1] = Head(str)
           /\ EscapedAsClaimed(Tail(str), Tail(out))
    ELSE /\ Len(out) >= 6
         /\ out[1] = 92 /\ out[2] = 117
         /\ \A j \in 3..6 : HexValue(out[j]) >= 0
         /\ Head(str) <= 65535 =>
               Head(str) = 4096 * HexValue(out[3]) + 256 * HexValue(out[4])
                             + 16 * HexValue(out[5]) + HexValue(out[6])
         /\ EscapedAsClaimed(Tail(str), SubSeq(out, 7, Len(out)))

\* C12 as claimed: encode_unicode_codepoints replaces every code point of 0x80
\* and above, those above 0xFFFF too, by a backslash, a u and exactly four
\* lowercase zero-padded hex digits, and keeps every code point of 0x00..0x7F
\* unchanged and in place.
C12_Claim ==
    last.op = "encode_unicode_codepoints" => EscapedAsClaimed(last.arg, last.out)

(***************************************************************************)
(* Properties of get_from_environment (EnvSpec).                           *)
(***************************************************************************)
\* what get_from_environment has done, `invalid` being the outcome under an
\* EXECJS_RUNTIME that names no runtime of the registry or an unavailable one
EnvironLookup(invalid) ==
    IF last.environ \in {None, ""} THEN last.out = Return(NoObject)
    ELSE IF EnvironUnusable(last.environ) THEN invalid
    ELSE last.out = Return(DictGet(_runtimes, last.environ))

RegularExecutablePlaces ==
    LET in == last.arg
        exts == Suffixes(in.env)
    IN  {p \in (1..Len(in.env.PATH)) \X (1..Len(exts)) :
            /\ <<in.env.PATH[p[1]], Head(in.command), exts[p[2]]>> \in DOMAIN in.fs
            /\ in.fs[<<in.env.PATH[p[1]], Head(in.command), exts[p[2]]>>] = "file_x"}

\* p comes no later than q: directories are the outer order, suffixes the inner
NoLaterPlace(p, q) == p[1] < q[1] \/ (p[1] = q[1] /\ p[2] <= q[2])

\* C18: _which(command) looks for the first token of the command only; it returns
\* the path of the first regular executable file met going through the
\* directories of the search path in order and, in each, through the suffixes in
\* order, followed by the other tokens unchanged; it returns None, raising
\* nothing, when no directory has such a file, also when names are missing or
\* cannot be read.
C18_WhichFirstMatch ==
    last.op = "_which" =>
        IF RegularExecutablePlaces = {} THEN last.out = NotFound
        ELSE \E p \in RegularExecutablePlaces :
                /\ \A q \in RegularExecutablePlaces : NoLaterPlace(p, q)
                /\ last.out.t = "cmd"
                /\ last.out.path = <<last.arg.env.PATH[p[1]], Head(last.arg.command),
                                     Suffixes(last.arg.env)[p[2]]>>
                /\ last.out.args = Tail(last.arg.command)

\* on Windows cscript.BAT of the first directory has been found, past a
\* cscript.EXE there that cannot be read and before the cscript.EXE of the
\* second directory; the flags follow it
C18_Witness ==
    /\ last.op = "_which"
    /\ last.arg.env.windows
    /\ last.arg.env.PATH = <<"/opt/bin", "/usr/bin">>
    /\ last.arg.fs[<<"/opt/bin", "cscript", ".EXE">>] = "EACCES"
    /\ last.arg.fs[<<"/opt/bin", "cscript", ".BAT">>] = "file_x"
    /\ last.arg.fs[<<"/usr/bin", "cscript", ".EXE">>] = "file_x"
    /\ last.out.path = <<"/opt/bin", "cscript", ".BAT">>
    /\ last.out.args = <<"//E:jscript", "//Nologo">>

(***************************************************************************)
(* Properties of the import (SetupSpec).                                   *)
(***************************************************************************)
\* candidate i of the family is found on this machine
CandidateFound(fam, i) ==
    IF config[fam].runtime_type = "PyV8Runtime" THEN "PyV8" \in installed
    ELSE Head(config[fam].commands_to_try[i]) \in installed

\* the candidates of the family that are found
FoundCandidates(fam) ==
    {i \in 1..Len(config[fam].commands_to_try) : CandidateFound(fam, i)}

\* the candidate whose descriptor the family is to be bound to: the first one
\* found, the last one when none is found
KeptCandidate(fam) ==
    IF FoundCandidates(fam) = {} THEN Len(config[fam].commands_to_try)
    ELSE CHOOSE i \in FoundCandidates(fam) : \A j \in FoundCandidates(fam) : i <= j

\* the objects made for the family, in the order they were made
FamilyObjects(fam) == {o \in 1..Len(heap) : heap[o].name = config[fam].name}

\* C15: after the registry is built, each family's name and all its aliases are
\* bound to one descriptor, the one made from the first candidate command, in
\* the configured order, that is found available; the candidates before it were
\* made and probed, no candidate after it was; when no candidate is available
\* the family is bound to the descriptor of its last candidate and is_available()
\* on it is false.
C15_FirstAvailableCandidate ==
    last.op = "import" =>
        \A j \in 1..Len(runtime_preferred_order) :
            LET fam == runtime_preferred_order[j]
                r == DictGet(_runtimes, fam)
                kept == KeptCandidate(fam)
            IN  /\ fam \in DictKeys(_runtimes)
                /\ \A i \in 1..Len(config[fam].alternate_names) :
                      /\ config[fam].alternate_names[i] \in DictKeys(_runtimes)
                      /\ DictGet(_runtimes, config[fam].alternate_names[i]) = r
                /\ Cardinality(FamilyObjects(fam)) = kept
                /\ \A o \in FamilyObjects(fam) : o <= r
                /\ config[fam].runtime_type = "ExternalRuntime" =>
                      /\ heap[r].command = config[fam].commands_to_try[kept]
                      /\ \A o \in FamilyObjects(fam) : heap[o].which_calls = 1
                /\ Available(r) = (FoundCandidates(fam) # {})

\* Node's first candidate nodejs is not installed and its second, node, is:
\* both were made, and the family is bound to the second
C15_Witness ==
    /\ last.op = "import"
    /\ installed = {"node", "js"}
    /\ Cardinality(FamilyObjects("Node")) = 2
    /\ heap[DictGet(_runtimes, "Node")].command = <<"node">>
    /\ Available(DictGet(_runtimes, "Node"))
    /\ ~Available(DictGet(_runtimes, "JScript"))

(***************************************************************************)
(* Properties of exec_ with the runner templates (RunnerSpec).             *)
(***************************************************************************)
\* the call has run the engine on a program whose value JSON.stringify rejects,
\* and the template has printed the envelope ["err"]
PrintedErrAlone(k) ==
    /\ k.pc = "done" /\ k.spawned /\ k.ret = 0
    /\ JsRun(k.source).k = "cyclic"
    /\ k.output_last_line = json_dumps(PyList(<<PyStr(S_err)>>))

\* C14 as claimed: when the wrapped program prints the one-element envelope
\* ["err"], its value being one that cannot be serialized, exec_ raises
\* ProgramError: it returns no value and raises no other exception.
C14_Claim ==
    PrintedErrAlone(call) => (call.out.kind = "raise" /\ call.out.exc = "ProgramError")

\* P, a newline and the program; the program alone when P is empty
PreambleThenProgram(P, program) ==
    IF P = NoText THEN program ELSE P \o <<LF>> \o program

\* one step, seen from its end: the contexts are as they were, and a call that
\* has written its file has written the template of the context's runtime
\* around the context's preamble and the call's own program
C17_Step ==
    /\ Len(contexts') >= Len(contexts)
    /\ \A c \in 1..Len(contexts) : contexts'[c] = contexts[c]
    /\ call'.pc = "execfile" =>
          LET ctx == contexts'[call'.self]
              handed == PreambleThenProgram(ctx._source, call'.program)
          IN  /\ call'.source = handed
              /\ tempdir'[call'.filename] =
                    [template |-> heap'[ctx._runtime].runner_source, source |-> handed]

\* C17: over any sequence of exec_ calls on contexts compiled with a preamble P,
\* the program each call hands to the runner template is P, a newline and the
\* call's own program (the program alone when P is empty); no call changes a
\* context's preamble or runtime, so nothing of an earlier call is in it.
C17_PreambleOnly == [][C17_Step]_vars

\* with two contexts compiled, a call on the one with the preamble has written
\* the preamble, a newline and its program
C17_Witness ==
    /\ Len(contexts) = 2
    /\ contexts[1]._source = NoText
    /\ call.pc = "execfile" /\ call.self = 2
    /\ call.program = <<"return x">>
    /\ tempdir[call.filename].source = <<VarX, LF, "return x">>


(***************************************************************************)
(* Properties of the two registries (MapSpec).                             *)
(***************************************************************************)
\* the names of the order among the keys of d, in the order iteration visits
\* them
PrimaryNames(d, order) ==
    SelectSeq([i \in 1..Len(d) |-> d[i].k],
              LAMBDA k : \E j \in 1..Len(order) : order[j] = k)

\* C21: building the registry always succeeds and covers the priority list:
\* every name of runtime_preferred_order has an entry in the mapping it is
\* looked up in (runtimes_config.config for execjs/__init__.py, the runtime map
\* for execjs/_runtimes.py), so after module initialisation the registry holds
\* a descriptor for every family of the priority list and iterating it visits
\* the primary names in priority order.
C21_Claim ==
    /\ last.op \in {"import", "import_runtimes"} =>
          /\ \A j \in 1..Len(runtime_preferred_order) :
                /\ runtime_preferred_order[j] \in DOMAIN config
                /\ runtime_preferred_order[j] \in DictKeys(_runtimes)
                /\ DictGet(_runtimes, runtime_preferred_order[j]) \in 1..Len(heap)
          /\ PrimaryNames(_runtimes, runtime_preferred_order) = runtime_preferred_order
    /\ last.op = "import_runtimes" =>
          /\ last.out.kind = "return"
          /\ \A j \in 1..Len(_runtimes_py_runtime_preferred_order) :
                /\ _runtimes_py_runtime_preferred_order[j] \in DictKeys(last.arg)
                /\ DictGet(last.arg, _runtimes_py_runtime_preferred_order[j]) \in 1..Len(heap)
          /\ PrimaryNames(last.arg, _runtimes_py_runtime_preferred_order)
                = _runtimes_py_runtime_preferred_order

\* the half of C21 about execjs/__init__.py alone
PackageRegistryCovers ==
    last.op \in {"import", "import_runtimes"} =>
        /\ \A j \in 1..Len(runtime_preferred_order) :
              /\ runtime_preferred_order[j] \in DOMAIN config
              /\ runtime_preferred_order[j] \in DictKeys(_runtimes)
        /\ PrimaryNames(_runtimes, runtime_preferred_order) = runtime_preferred_order

\* what import execjs._runtimes does on every machine: KeyError for
\* SpiderMonkey, and no registry
RuntimesImportRaises ==
    last.op = "import_runtimes" =>
        /\ last.out = Raise("KeyError", "{name}", "SpiderMonkey")
        /\ last.arg = NoObject

====
